---- MODULE Spec2Model ----
(***************************************************************************)
(* Model of server.py: the tag-driven playback server.                     *)
(*                                                                         *)
(* Threads: the request handler thread (socketio handlers and main), the   *)
(* _player threads created by _start_playback_thread, and one              *)
(* _monitor_playback thread per spawned mpg123 process.  Every step reads  *)
(* or writes at most a few shared cells, so the interleavings of the       *)
(* threads are the interleavings of the actions below.  Sleeps and the     *)
(* bounded waits (join(timeout), wait(timeout)) carry no clock: a bounded  *)
(* wait either sees what it waits for or times out.  A signal that cannot  *)
(* be ignored (kill(), pkill -9) ends its process at once, and so does     *)
(* terminate() followed by wait(timeout=1) and kill().                     *)
(*                                                                         *)
(* The specifications share the actions and differ in what the client and  *)
(* the hardware do: Spec (thread lifecycle, one track), SpecMapping (all   *)
(* mapping requests, two tracks), SpecCancel (Spec's register requests     *)
(* under fair scheduling), SpecPlayback (one _player thread, tags, tracks  *)
(* ending, stop_playback), SpecDelete (SpecPlayback with delete_file       *)
(* requests) and SpecVolume (set_volume requests).                         *)
(***************************************************************************)
EXTENDS Integers, FiniteSets, Sequences, TLC

\* Bounds of the model: thread objects and player processes that can exist
\* at the same time.
MaxLoops == 2
MaxProcs == 2

Loops == 1..MaxLoops
Procs == 1..MaxProcs
\* dict objects on the heap: the global's, and one per live _player thread
Dicts == 1..(MaxLoops + 1)

\* Python's None for a filename, a track or a level; file names, tracks
\* and levels are tuples, so None is the empty one
None == <<>>
NoThread == 0
NoProc == 0

\* Tag ids as the reader reports them, and the audio file names a client
\* can send: <<stem, extension>>
Tags == {"t1", "t2"}
Files == {<<"a", "mp3">>, <<"b", "ogg">>}

\* Path(filename).stem
Stem(f) == <<f[1]>>

Mappings == [Tags -> Files \cup {None}]
EmptyDict == [t \in Tags |-> None]

VARIABLES
    heap,            \* the dict objects: slot -> contents
    tag_mapping,     \* global tag_mapping: a reference to a dict object
    saved,           \* contents of tag_mappings.json
    playback_thread, \* global playback_thread: a thread or NoThread
    stop_playback,   \* the threading.Event
    current_track,   \* global current_track
    led,             \* level of LED_PIN
    last_emit,       \* payload of the latest track_update; before the
                     \* first one, what index() rendered (line 95)
    pc,              \* _player thread: position
    local_mapping,   \* _player thread: the dict it was started with
    current_process, \* _player thread: local current_process/monitor_thread
    current_file,    \* _player thread: local current_file
    filename,        \* _player thread: local filename of this iteration
    proc,            \* mpg123 process and its _monitor_playback thread
    hpc,             \* handler thread: position
    audio_file,      \* handler thread: register's audio_file argument
    level,           \* handle_set_volume: int(data.get("level", 80))
    remapped_level,  \* what amixer was last told, in 1/99 of a percent
    actual_level     \* payload of the latest volume_update

vars == <<heap, tag_mapping, saved, playback_thread, stop_playback,
          current_track, led, last_emit, pc, local_mapping, current_process,
          current_file, filename, proc, hpc, audio_file, level,
          remapped_level, actual_level>>

globals == <<heap, tag_mapping, saved, playback_thread, stop_playback>>
locals == <<local_mapping, current_process, current_file, filename>>
handler == <<hpc, audio_file>>
volume == <<level, remapped_level, actual_level>>

----------------------------------------------------------------------------
\* Helpers

\* threading.Thread.is_alive()
is_alive(l) == pc[l] # "dead"

LiveLoops == {l \in Loops : is_alive(l)}

\* Popen.poll() is None: the process has not exited
Running(p) == proc[p] = "alive"

RunningProcs == {p \in Procs : Running(p)}

\* the _monitor_playback thread of process p has not returned
MonitorAlive(p) == proc[p] \in {"alive", "exited", "w_led", "w_emit"}

\* A SimpleMFRC522 object is held by _player from line 290 until it returns
LoopReader(l) == pc[l] \notin {"dead", "delay"}

\* and by handle_register_tag from line 147 on
RegisterReader == hpc = "reg_read"

\* local_mapping.get(str(tag_id))
Resolve(l, t) == heap[local_mapping[l]][t]

\* the least element of a non-empty set of slots
Least(S) == CHOOSE x \in S : \A y \in S : x <= y

\* Dict objects nothing refers to are garbage: their slot is emptied.
Collect(h, g, lm, alive) ==
    [d \in Dicts |->
        IF d = g \/ \E l \in alive : lm[l] = d THEN h[d] ELSE EmptyDict]

\* pkill -9 mpg123: every running player exits
PkillAll == [p \in Procs |-> IF proc[p] = "alive" THEN "exited" ELSE proc[p]]

min(a, b) == IF b < a THEN b ELSE a
max(a, b) == IF b > a THEN b ELSE a

----------------------------------------------------------------------------
\* _set_volume (lines 273-278)

\* The numbers of lines 228, 274, 276 and 364
DefaultLevel == 80
BootLevel == 50
FullLevel == 100
MixerLow == 25
MixerHigh == 90
MixerSteps == 99

\* line 274
Clamped(v) == max(0, min(FullLevel, v))

\* line 276 without its "if level > 0 else 0"
RemappedUnguarded(v) ==
    MixerLow * MixerSteps + (v - 1) * (MixerHigh - MixerLow)

\* line 276, for a clamped level: the float 25 + (level - 1) * 65 / 99 is
\* kept exact as a number of 1/99 of a percent
Remapped(v) ==
    IF v > 0 THEN MixerLow * MixerSteps + (v - 1) * (MixerHigh - MixerLow)
    ELSE 0

----------------------------------------------------------------------------
\* Module level state (lines 69-72), before main() runs; the mapping file
\* holds one of the mappings in S
Boot(S) ==
    /\ heap = [d \in Dicts |-> EmptyDict]
    /\ tag_mapping = 1
    /\ saved \in S
    /\ playback_thread = NoThread
    /\ stop_playback = FALSE
    /\ current_track = None
    /\ led = FALSE
    /\ last_emit = None
    /\ pc = [l \in Loops |-> "dead"]
    /\ local_mapping = [l \in Loops |-> 1]
    /\ current_process = [l \in Loops |-> NoProc]
    /\ current_file = [l \in Loops |-> None]
    /\ filename = [l \in Loops |-> None]
    /\ proc = [p \in Procs |-> "free"]
    /\ hpc = "boot"
    /\ audio_file = None
    /\ level = None
    /\ remapped_level = None
    /\ actual_level = None

\* The mapping file of the lifecycle runs: tag t1 plays a.mp3, t2 is unknown
OneTrack == [t \in Tags |-> IF t = "t1" THEN <<"a", "mp3">> ELSE None]

Init == Boot({OneTrack})

\* Any mapping file
InitMapping == Boot(Mappings)

\* The mapping files of the playback runs: OneTrack, or both tags known
TwoTracks ==
    [t \in Tags |-> IF t = "t1" THEN <<"a", "mp3">> ELSE <<"b", "ogg">>]

InitPlayback == Boot({OneTrack, TwoTracks})

----------------------------------------------------------------------------
\* _start_playback_thread(tag_mapping): clears the Event and starts a new
\* _player thread on the dict object it is given (no copy is made).
StartThread(l) ==
    /\ ~is_alive(l)
    /\ l = Least(Loops \ LiveLoops)
    /\ stop_playback' = FALSE
    /\ playback_thread' = l
    /\ pc' = [pc EXCEPT ![l] = "delay"]
    /\ local_mapping' = [local_mapping EXCEPT ![l] = tag_mapping]
    /\ current_process' = [current_process EXCEPT ![l] = NoProc]
    /\ current_file' = [current_file EXCEPT ![l] = None]
    /\ filename' = [filename EXCEPT ![l] = None]

\* main(): load the mapping file, start the player thread, set the mixer
\* (line 364; the value _set_volume returns is dropped)
Main ==
    /\ hpc = "boot"
    /\ \E l \in Loops : StartThread(l)
    /\ heap' = [heap EXCEPT ![tag_mapping] = saved]
    /\ hpc' = "idle"
    /\ remapped_level' = <<Remapped(Clamped(BootLevel))>>
    /\ UNCHANGED <<tag_mapping, saved, current_track, led, last_emit, proc,
                   audio_file, level, actual_level>>

----------------------------------------------------------------------------
\* _player (lines 287-357), one thread per start

\* line 289-290: the startup sleep ends, the reader object is created
PlayerWake(l) ==
    /\ pc[l] = "delay"
    /\ pc' = [pc EXCEPT ![l] = "poll"]
    /\ UNCHANGED <<globals, current_track, led, last_emit, locals, proc,
                   handler, volume>>

\* line 296: the Event is set, the while loop ends, finally runs
PlayerCancelled(l) ==
    /\ pc[l] = "poll"
    /\ stop_playback
    /\ pc' = [pc EXCEPT ![l] = "fin_terminate"]
    /\ UNCHANGED <<globals, current_track, led, last_emit, locals, proc,
                   handler, volume>>

\* lines 297-300: no tag on the reader
PollNoTag(l) ==
    /\ pc[l] = "poll"
    /\ ~stop_playback
    /\ UNCHANGED vars

\* line 297: read_id_no_block raises; nothing catches it, finally runs and
\* the thread ends
PollRaises(l) ==
    /\ pc[l] = "poll"
    /\ ~stop_playback
    /\ pc' = [pc EXCEPT ![l] = "fin_terminate"]
    /\ UNCHANGED <<globals, current_track, led, last_emit, locals, proc,
                   handler, volume>>

\* lines 302-304: tag t is not in local_mapping; led_flash_error begins
ScanUnmapped(l, t) ==
    /\ pc[l] = "poll"
    /\ ~stop_playback
    /\ Resolve(l, t) = None
    /\ led' = TRUE
    /\ pc' = [pc EXCEPT ![l] = "unmapped_flash"]
    /\ UNCHANGED <<globals, current_track, last_emit, locals, proc, handler,
                   volume>>

\* lines 311-314: the tag resolves to current_file
ScanSame(l, t) ==
    /\ pc[l] = "poll"
    /\ ~stop_playback
    /\ Resolve(l, t) # None
    /\ Resolve(l, t) = current_file[l]
    /\ UNCHANGED vars

\* lines 302, 312: the tag resolves to another file
ScanOther(l, t) ==
    /\ pc[l] = "poll"
    /\ ~stop_playback
    /\ Resolve(l, t) # None
    /\ Resolve(l, t) # current_file[l]
    /\ filename' = [filename EXCEPT ![l] = Resolve(l, t)]
    /\ pc' = [pc EXCEPT ![l] = "terminate"]
    /\ UNCHANGED <<globals, current_track, led, last_emit, local_mapping,
                   current_process, current_file, proc, handler, volume>>

\* lines 317-322 and 347-352: terminate(), wait(timeout=1), kill() on
\* timeout: the thread's own process, if still running, has exited
TerminateOwn(l) ==
    [p \in Procs |->
        IF p = current_process[l] /\ proc[p] = "alive" THEN "exited"
        ELSE proc[p]]

\* lines 304-305: led_flash_error ends with the pin low
UnmappedFlashEnd(l) ==
    /\ pc[l] = "unmapped_flash"
    /\ led' = FALSE
    /\ pc' = [pc EXCEPT ![l] = "unmapped_clear"]
    /\ UNCHANGED <<globals, current_track, last_emit, locals, proc, handler,
                   volume>>

\* line 306 preceded by the teardown of lines 317-322: an unmapped tag
\* stops the track
UnmappedClearStops(l) ==
    /\ pc[l] = "unmapped_clear"
    /\ current_track' = None
    /\ proc' = TerminateOwn(l)
    /\ pc' = [pc EXCEPT ![l] = "unmapped_emit"]
    /\ UNCHANGED <<globals, led, last_emit, locals, handler, volume>>

\* line 306
UnmappedClear(l) ==
    /\ pc[l] = "unmapped_clear"
    /\ current_track' = None
    /\ pc' = [pc EXCEPT ![l] = "unmapped_emit"]
    /\ UNCHANGED <<globals, led, last_emit, locals, proc, handler, volume>>

\* lines 307-309
UnmappedEmit(l) ==
    /\ pc[l] = "unmapped_emit"
    /\ last_emit' = None
    /\ pc' = [pc EXCEPT ![l] = "poll"]
    /\ UNCHANGED <<globals, current_track, led, locals, proc, handler,
                   volume>>

Terminate(l) ==
    /\ pc[l] = "terminate"
    /\ proc' = TerminateOwn(l)
    /\ pc' = [pc EXCEPT ![l] = "join"]
    /\ UNCHANGED <<globals, current_track, led, last_emit, locals, handler,
                   volume>>

\* monitor_thread and monitor_thread.is_alive()
OwnMonitorAlive(l) ==
    current_process[l] # NoProc /\ MonitorAlive(current_process[l])

\* lines 324-325: no live monitor, or join returns because it ended
JoinMonitor(l) ==
    /\ pc[l] = "join"
    /\ ~OwnMonitorAlive(l)
    /\ pc' = [pc EXCEPT ![l] = "set_track"]
    /\ UNCHANGED <<globals, current_track, led, last_emit, locals, proc,
                   handler, volume>>

\* line 325: join(timeout=1) returns with the monitor still alive
JoinMonitorTimeout(l) ==
    /\ pc[l] = "join"
    /\ OwnMonitorAlive(l)
    /\ pc' = [pc EXCEPT ![l] = "set_track"]
    /\ UNCHANGED <<globals, current_track, led, last_emit, locals, proc,
                   handler, volume>>

\* lines 327-329
SetTrack(l) ==
    /\ pc[l] = "set_track"
    /\ current_file' = [current_file EXCEPT ![l] = filename[l]]
    /\ current_track' = Stem(filename[l])
    /\ pc' = [pc EXCEPT ![l] = "emit_track"]
    /\ UNCHANGED <<globals, led, last_emit, local_mapping, current_process,
                   filename, proc, handler, volume>>

\* line 330: the payload is the global as it is now
EmitTrack(l) ==
    /\ pc[l] = "emit_track"
    /\ last_emit' = current_track
    /\ pc' = [pc EXCEPT ![l] = "led_on"]
    /\ UNCHANGED <<globals, current_track, led, locals, proc, handler,
                   volume>>

\* line 333
LedOn(l) ==
    /\ pc[l] = "led_on"
    /\ led' = TRUE
    /\ pc' = [pc EXCEPT ![l] = "popen"]
    /\ UNCHANGED <<globals, current_track, last_emit, locals, proc, handler,
                   volume>>

\* process slots a new Popen of thread l can take: finished, and not the
\* current_process of another thread
FreeProcs(l) ==
    {p \in Procs : proc[p] = "free"
                   /\ \A k \in Loops \ {l} : current_process[k] # p}

\* lines 335-345: mpg123 is spawned and its monitor thread started
Popen(l) ==
    /\ pc[l] = "popen"
    /\ FreeProcs(l) # {}
    /\ LET p == Least(FreeProcs(l)) IN
        /\ proc' = [proc EXCEPT ![p] = "alive"]
        /\ current_process' = [current_process EXCEPT ![l] = p]
    /\ filename' = [filename EXCEPT ![l] = None]
    /\ pc' = [pc EXCEPT ![l] = "poll"]
    /\ UNCHANGED <<globals, current_track, led, last_emit, local_mapping,
                   current_file, handler, volume>>

\* line 335: Popen raises (no mpg123 binary); nothing catches it, finally
\* runs and the thread ends
PopenRaises(l) ==
    /\ pc[l] = "popen"
    /\ filename' = [filename EXCEPT ![l] = None]
    /\ pc' = [pc EXCEPT ![l] = "fin_terminate"]
    /\ UNCHANGED <<globals, current_track, led, last_emit, local_mapping,
                   current_process, current_file, proc, handler, volume>>

\* lines 347-352
FinTerminate(l) ==
    /\ pc[l] = "fin_terminate"
    /\ proc' = TerminateOwn(l)
    /\ pc' = [pc EXCEPT ![l] = "fin_join"]
    /\ UNCHANGED <<globals, current_track, led, last_emit, locals, handler,
                   volume>>

\* lines 353-354
FinJoin(l) ==
    /\ pc[l] = "fin_join"
    /\ ~OwnMonitorAlive(l)
    /\ pc' = [pc EXCEPT ![l] = "fin_clear"]
    /\ UNCHANGED <<globals, current_track, led, last_emit, locals, proc,
                   handler, volume>>

FinJoinTimeout(l) ==
    /\ pc[l] = "fin_join"
    /\ OwnMonitorAlive(l)
    /\ pc' = [pc EXCEPT ![l] = "fin_clear"]
    /\ UNCHANGED <<globals, current_track, led, last_emit, locals, proc,
                   handler, volume>>

\* line 355
FinClear(l) ==
    /\ pc[l] = "fin_clear"
    /\ current_track' = None
    /\ pc' = [pc EXCEPT ![l] = "fin_led"]
    /\ UNCHANGED <<globals, led, last_emit, locals, proc, handler, volume>>

\* line 356
FinLed(l) ==
    /\ pc[l] = "fin_led"
    /\ led' = FALSE
    /\ pc' = [pc EXCEPT ![l] = "fin_emit"]
    /\ UNCHANGED <<globals, current_track, last_emit, locals, proc, handler,
                   volume>>

\* line 357: the last statement; the thread ends and drops its locals
FinEmit(l) ==
    /\ pc[l] = "fin_emit"
    /\ last_emit' = None
    /\ pc' = [pc EXCEPT ![l] = "dead"]
    /\ local_mapping' = [local_mapping EXCEPT ![l] = 1]
    /\ current_process' = [current_process EXCEPT ![l] = NoProc]
    /\ current_file' = [current_file EXCEPT ![l] = None]
    /\ filename' = [filename EXCEPT ![l] = None]
    /\ heap' = Collect(heap, tag_mapping, local_mapping, LiveLoops \ {l})
    /\ UNCHANGED <<tag_mapping, saved, playback_thread, stop_playback,
                   current_track, led, proc, handler, volume>>

----------------------------------------------------------------------------
\* mpg123 and _monitor_playback (lines 252-258)

\* the player reaches the end of the track (or fails to open it) and exits
ProcessExits(p) ==
    /\ proc[p] = "alive"
    /\ proc' = [proc EXCEPT ![p] = "exited"]
    /\ UNCHANGED <<globals, current_track, led, last_emit, pc, locals,
                   handler, volume>>

\* _monitor_playback without its "global current_track": the assignment of
\* line 255 binds a local and the global keeps its value
MonitorClearLocal(p) ==
    /\ proc[p] = "exited"
    /\ proc' = [proc EXCEPT ![p] = "w_led"]
    /\ UNCHANGED <<globals, current_track, led, last_emit, pc, locals,
                   handler, volume>>

\* lines 254-255: process.wait() has returned
MonitorClear(p) ==
    /\ proc[p] = "exited"
    /\ current_track' = None
    /\ proc' = [proc EXCEPT ![p] = "w_led"]
    /\ UNCHANGED <<globals, led, last_emit, pc, locals, handler, volume>>

\* line 257
MonitorLed(p) ==
    /\ proc[p] = "w_led"
    /\ led' = FALSE
    /\ proc' = [proc EXCEPT ![p] = "w_emit"]
    /\ UNCHANGED <<globals, current_track, last_emit, pc, locals, handler,
                   volume>>

\* line 258: the monitor thread returns
MonitorEmit(p) ==
    /\ proc[p] = "w_emit"
    /\ last_emit' = None
    /\ proc' = [proc EXCEPT ![p] = "free"]
    /\ UNCHANGED <<globals, current_track, led, pc, locals, handler, volume>>

----------------------------------------------------------------------------
\* _stop_playback_thread (lines 266-271), as called at line 142

\* playback_thread and playback_thread.is_alive()
ThreadRunning == playback_thread # NoThread /\ is_alive(playback_thread)

\* lines 137-142, 268-270: register_tag arrives with an audio file; the
\* thread is alive: pkill, set the Event, then join
RegisterStop(f) ==
    /\ hpc = "idle"
    /\ ThreadRunning
    /\ proc' = PkillAll
    /\ stop_playback' = TRUE
    /\ hpc' = "reg_join"
    /\ audio_file' = f
    /\ UNCHANGED <<heap, tag_mapping, saved, playback_thread, current_track,
                   led, last_emit, pc, locals, volume>>

\* lines 137-142, 268: no live thread, _stop_playback_thread does nothing
RegisterNoStop(f) ==
    /\ hpc = "idle"
    /\ ~ThreadRunning
    /\ hpc' = "reg_flash"
    /\ audio_file' = f
    /\ UNCHANGED <<globals, current_track, led, last_emit, pc, locals, proc,
                   volume>>

\* line 271: join returns because the thread has ended
JoinThread ==
    /\ hpc = "reg_join"
    /\ ~is_alive(playback_thread)
    /\ hpc' = "reg_flash"
    /\ UNCHANGED <<globals, current_track, led, last_emit, pc, locals, proc,
                   audio_file, volume>>

\* line 271: join(timeout=2) returns with the thread still alive
JoinThreadTimeout ==
    /\ hpc = "reg_join"
    /\ is_alive(playback_thread)
    /\ hpc' = "reg_flash"
    /\ UNCHANGED <<globals, current_track, led, last_emit, pc, locals, proc,
                   audio_file, volume>>

----------------------------------------------------------------------------
\* handle_register_tag (lines 136-167), after _stop_playback_thread

\* line 144: led_flash_scanning begins
ScanningFlash ==
    /\ hpc = "reg_flash"
    /\ led' = TRUE
    /\ hpc' = "reg_flash_end"
    /\ UNCHANGED <<globals, current_track, last_emit, pc, locals, proc,
                   audio_file, volume>>

\* lines 144-147: led_flash_scanning ends with the pin low; the reader
\* object is created and read_id() blocks
ScanningFlashEnd ==
    /\ hpc = "reg_flash_end"
    /\ led' = FALSE
    /\ hpc' = "reg_read"
    /\ UNCHANGED <<globals, current_track, last_emit, pc, locals, proc,
                   audio_file, volume>>

\* _save_mappings_to_file (lines 248-250): the file holds the dict written,
\* or, when the write raises, what it held
Saved(m, ok) == IF ok THEN m ELSE saved

\* lines 148-160: read_id returns tag t, the entry is stored in the dict
\* tag_mapping refers to, the file is written and a new thread started on
\* the same dict
RegisterTag(t) ==
    /\ hpc = "reg_read"
    /\ heap' = [heap EXCEPT ![tag_mapping][t] = audio_file]
    /\ saved' = Saved(heap'[tag_mapping], TRUE)
    /\ \E l \in Loops : StartThread(l)
    /\ hpc' = "idle"
    /\ audio_file' = None
    /\ UNCHANGED <<tag_mapping, current_track, led, last_emit, proc, volume>>

\* lines 148-154, 161-162: as above, but the write of the file raises:
\* the except clause runs, no thread is started
RegisterTagSaveFails(t) ==
    /\ hpc = "reg_read"
    /\ heap' = [heap EXCEPT ![tag_mapping][t] = audio_file]
    /\ saved' = Saved(heap'[tag_mapping], FALSE)
    /\ led' = TRUE
    /\ hpc' = "error_flash"
    /\ UNCHANGED <<tag_mapping, playback_thread, stop_playback, current_track,
                   last_emit, pc, locals, proc, audio_file, volume>>

\* lines 148, 161-162: read_id raises, the except clause runs
RegisterReadFails ==
    /\ hpc = "reg_read"
    /\ led' = TRUE
    /\ hpc' = "error_flash"
    /\ UNCHANGED <<globals, current_track, last_emit, pc, locals, proc,
                   audio_file, volume>>

\* lines 162-164, 211-212: led_flash_error ends with the pin low and the
\* handler returns an error
ErrorFlashEnd ==
    /\ hpc = "error_flash"
    /\ led' = FALSE
    /\ hpc' = "idle"
    /\ audio_file' = None
    /\ UNCHANGED <<globals, current_track, last_emit, pc, locals, proc,
                   volume>>

----------------------------------------------------------------------------
\* handle_unregister_tag (lines 169-183)

\* lines 174-182: the entry is deleted from the dict tag_mapping refers to
\* and the file written; ok: the write does not raise
Unregister(t, ok) ==
    /\ hpc = "idle"
    /\ heap[tag_mapping][t] # None
    /\ heap' = [heap EXCEPT ![tag_mapping][t] = None]
    /\ saved' = Saved(heap'[tag_mapping], ok)
    /\ UNCHANGED <<tag_mapping, playback_thread, stop_playback, current_track,
                   led, last_emit, pc, locals, proc, handler, volume>>

\* line 183: "Tag not found"
UnregisterMissing(t) ==
    /\ hpc = "idle"
    /\ heap[tag_mapping][t] = None
    /\ UNCHANGED vars

----------------------------------------------------------------------------
\* handle_delete_file (lines 185-212)

\* lines 193-197 with "audio == filename" as the filter
WithoutFileInverted(m, f) == [t \in Tags |-> IF m[t] = f THEN m[t] ELSE None]

\* lines 193-197: the dict comprehension
WithoutFile(m, f) == [t \in Tags |-> IF m[t] # f THEN m[t] ELSE None]

\* the slot of the new dict object: the old one's when no thread holds it
NewDict ==
    LET unheld == {d \in Dicts : \A l \in LiveLoops : local_mapping[l] # d}
    IN IF tag_mapping \in unheld THEN tag_mapping ELSE Least(unheld)

\* lines 191-209: the file is removed, tag_mapping is rebound to a new dict
\* without the file's entries, the file written
DeleteFile(f) ==
    /\ hpc = "idle"
    /\ tag_mapping' = NewDict
    /\ heap' = Collect([heap EXCEPT ![NewDict] = WithoutFile(heap[tag_mapping], f)],
                       NewDict, local_mapping, LiveLoops)
    /\ saved' = Saved(heap'[tag_mapping'], TRUE)
    /\ UNCHANGED <<playback_thread, stop_playback, current_track, led,
                   last_emit, pc, locals, proc, handler, volume>>

\* lines 191-198, 210-211: as above, but the write of the file raises
DeleteFileSaveFails(f) ==
    /\ hpc = "idle"
    /\ tag_mapping' = NewDict
    /\ heap' = Collect([heap EXCEPT ![NewDict] = WithoutFile(heap[tag_mapping], f)],
                       NewDict, local_mapping, LiveLoops)
    /\ saved' = Saved(heap'[tag_mapping'], FALSE)
    /\ led' = TRUE
    /\ hpc' = "error_flash"
    /\ UNCHANGED <<playback_thread, stop_playback, current_track, last_emit,
                   pc, locals, proc, audio_file, volume>>

\* lines 191, 210-211: os.remove raises (no such file)
DeleteFileMissing ==
    /\ hpc = "idle"
    /\ led' = TRUE
    /\ hpc' = "error_flash"
    /\ UNCHANGED <<globals, current_track, last_emit, pc, locals, proc,
                   audio_file, volume>>

----------------------------------------------------------------------------
\* handle_stop_playback (lines 214-224)

\* line 217
StopPkill ==
    /\ hpc = "idle"
    /\ proc' = PkillAll
    /\ hpc' = "stop_clear"
    /\ UNCHANGED <<globals, current_track, led, last_emit, pc, locals,
                   audio_file, volume>>

\* line 218
StopClear ==
    /\ hpc = "stop_clear"
    /\ current_track' = None
    /\ hpc' = "stop_led"
    /\ UNCHANGED <<globals, led, last_emit, pc, locals, proc, audio_file,
                   volume>>

\* line 219
StopLed ==
    /\ hpc = "stop_led"
    /\ led' = FALSE
    /\ hpc' = "stop_emit"
    /\ UNCHANGED <<globals, current_track, last_emit, pc, locals, proc,
                   audio_file, volume>>

\* lines 220-224
StopEmit ==
    /\ hpc = "stop_emit"
    /\ last_emit' = None
    /\ hpc' = "idle"
    /\ UNCHANGED <<globals, current_track, led, pc, locals, proc, audio_file,
                   volume>>

----------------------------------------------------------------------------
\* handle_set_volume (lines 226-235)

\* Levels a client sends: Margin below 0 and above 100
Margin == 20
Levels == (0 - Margin)..(FullLevel + Margin)

\* data.get("level", 80): None when the request carries no level
Requests == {None} \cup {<<v>> : v \in Levels}

\* lines 228-235, with _set_volume (lines 274-278): the level is clamped,
\* the mixer told the remapped value, the clamped level emitted and returned
SetVolume(data) ==
    /\ hpc = "idle"
    /\ level' = IF data = None THEN <<DefaultLevel>> ELSE data
    /\ remapped_level' = <<Remapped(Clamped(level'[1]))>>
    /\ actual_level' = <<Clamped(level'[1])>>
    /\ UNCHANGED <<globals, current_track, led, last_emit, pc, locals, proc,
                   handler>>

----------------------------------------------------------------------------
\* The steps of a request once it has been received
Register ==
    \/ JoinThread
    \/ ScanningFlash
    \/ ScanningFlashEnd
    \/ RegisterReadFails
    \/ ErrorFlashEnd

StopPlayback ==
    \/ StopPkill
    \/ StopClear
    \/ StopLed
    \/ StopEmit

\* The steps of a _player thread that wait for no input
PlayerStep(l) ==
    \/ PlayerWake(l)
    \/ PlayerCancelled(l)
    \/ UnmappedFlashEnd(l)
    \/ UnmappedClear(l)
    \/ UnmappedEmit(l)
    \/ Terminate(l)
    \/ JoinMonitor(l)
    \/ SetTrack(l)
    \/ EmitTrack(l)
    \/ LedOn(l)
    \/ Popen(l)
    \/ FinTerminate(l)
    \/ FinJoin(l)
    \/ FinJoinTimeout(l)
    \/ FinClear(l)
    \/ FinLed(l)
    \/ FinEmit(l)

\* What the reader reports to a poll
Poll(l) ==
    \/ PollNoTag(l)
    \/ \E t \in Tags : ScanUnmapped(l, t) \/ ScanSame(l, t) \/ ScanOther(l, t)

\* Exceptions raised inside the loop
PlayerRaises(l) ==
    \/ PollRaises(l)
    \/ PopenRaises(l)

Monitor(p) ==
    \/ ProcessExits(p)
    \/ MonitorClear(p)
    \/ MonitorLed(p)
    \/ MonitorEmit(p)

\* With one track a thread never goes from one file to another, so the
\* join of line 325 has no live monitor to wait for
OneTrackThreads ==
    \/ \E l \in Loops : PlayerStep(l) \/ Poll(l) \/ PlayerRaises(l)
    \/ \E p \in Procs : Monitor(p)

Threads ==
    \/ OneTrackThreads
    \/ \E l \in Loops : JoinMonitorTimeout(l)

----------------------------------------------------------------------------
\* Lifecycle runs: the mapping file holds OneTrack; the client registers
\* tag t1 for a.mp3 again and again and stops playback; a join may time
\* out, so _player threads can overlap.
Next ==
    \/ Main
    \/ RegisterStop(OneTrack["t1"])
    \/ RegisterNoStop(OneTrack["t1"])
    \/ JoinThreadTimeout
    \/ RegisterTag("t1")
    \/ RegisterTagSaveFails("t1")
    \/ Register
    \/ StopPlayback
    \/ OneTrackThreads

Spec == Init /\ [][Next]_vars

\* Mapping runs: every register, unregister and delete request on every
\* mapping file; _stop_playback_thread's join sees the thread end.
NextMapping ==
    \/ Main
    \/ \E f \in Files : RegisterStop(f) \/ RegisterNoStop(f)
    \/ \E t \in Tags : RegisterTag(t) \/ RegisterTagSaveFails(t)
    \/ Register
    \/ \E t \in Tags : Unregister(t, TRUE) \/ Unregister(t, FALSE)
                       \/ UnregisterMissing(t)
    \/ \E f \in Files : DeleteFile(f) \/ DeleteFileSaveFails(f)
    \/ DeleteFileMissing
    \/ Threads

SpecMapping == InitMapping /\ [][NextMapping]_vars

\* Cancellation runs: register requests and the threads, nothing raises.
\* The scheduler runs every thread that can take a step: a _player thread,
\* a monitor thread, the player process (a track ends) and a request that
\* has been received, up to its blocking read.
NextCancel ==
    \/ Main
    \/ RegisterStop(OneTrack["t1"])
    \/ JoinThread
    \/ JoinThreadTimeout
    \/ ScanningFlash
    \/ ScanningFlashEnd
    \/ RegisterTag("t1")
    \/ \E l \in Loops : PlayerStep(l) \/ Poll(l)
    \/ \E p \in Procs : Monitor(p)

Scheduling ==
    /\ \A l \in Loops : WF_vars(PlayerStep(l))
    /\ \A p \in Procs : WF_vars(Monitor(p))
    /\ WF_vars(JoinThread \/ JoinThreadTimeout \/ ScanningFlash
               \/ ScanningFlashEnd)

SpecCancel == Init /\ [][NextCancel]_vars /\ Scheduling

\* Playback runs: one _player thread on OneTrack or TwoTracks; tags are
\* scanned, tracks end, the client stops playback, and asks to register a
\* tag that the reader then fails to read.  Nothing raises inside the loop
\* and _stop_playback_thread's join sees the thread end.
NextPlayback ==
    \/ Main
    \/ RegisterStop(OneTrack["t1"])
    \/ RegisterNoStop(OneTrack["t1"])
    \/ Register
    \/ StopPlayback
    \/ \E l \in Loops : PlayerStep(l) \/ Poll(l) \/ JoinMonitorTimeout(l)
    \/ \E p \in Procs : Monitor(p)

SpecPlayback == InitPlayback /\ [][NextPlayback]_vars

\* Delete runs: the playback runs on any mapping file, with delete_file
\* requests for every file.
NextDelete ==
    \/ NextPlayback
    \/ \E f \in Files : DeleteFile(f) \/ DeleteFileSaveFails(f)
    \/ DeleteFileMissing

SpecDelete == InitMapping /\ [][NextDelete]_vars

\* Volume runs: after main(), set_volume requests with every level, and
\* with none.
NextVolume ==
    \/ Main
    \/ \E data \in Requests : SetVolume(data)

SpecVolume == Init /\ [][NextVolume]_vars

----------------------------------------------------------------------------
\* C1: at most one mpg123 process is running, in every reachable state.
C1_OneProcess == Cardinality(RunningProcs) <= 1

\* C2 as stated: current_track is non-null exactly when an mpg123 process
\* is running.
C2_TrackIffProcess == (current_track # None) <=> (RunningProcs # {})

\* A _player thread has written current_track (line 329) and not yet
\* started the process and its monitor (line 343), or is on its way through
\* the finally clause to line 355
SpawnPending(l) ==
    pc[l] \in {"emit_track", "led_on", "popen",
               "fin_terminate", "fin_join", "fin_clear"}

\* The process has exited and its monitor has not yet run line 255
ExitUnobserved(p) == proc[p] = "exited"

\* C2 amended: whenever current_track is non-null, an mpg123 process is
\* running, or one has exited and its monitor has not yet cleared the
\* cell, or a _player thread that has set the cell is between that write
\* and its Popen or the clearing of the cell in its finally clause.
C2_TrackBacked ==
    current_track # None =>
        \/ \E p \in Procs : Running(p) \/ ExitUnobserved(p)
        \/ \E l \in Loops : SpawnPending(l)

\* C2 witness: a track is named while its process runs and every _player
\* thread is back at its poll.
C2_Playing ==
    /\ current_track # None
    /\ RunningProcs # {}
    /\ \A l \in Loops : pc[l] \in {"dead", "poll"}

\* _stop_playback_thread returns to handle_register_tag
StopReturns == hpc # "reg_flash" /\ hpc' = "reg_flash"

\* C3: when _stop_playback_thread returns, current_track is None and no
\* mpg123 process is running.
C3_StopLeavesNothing ==
    [][StopReturns => (current_track' = None /\ RunningProcs' = {})]_vars

\* C4: at most one _player thread is alive, in every reachable state.
C4_OneLoop == Cardinality(LiveLoops) <= 1

\* C5: while a _player thread lives, the contents of the mapping it
\* resolves tags against do not change.
C5_SnapshotFixed ==
    [][\A l \in Loops :
          (is_alive(l) /\ is_alive(l)') =>
              heap'[local_mapping'[l]] = heap[local_mapping[l]]]_vars

\* A register, unregister or delete request returns success
MutationReturns ==
    \/ \E t \in Tags : RegisterTag(t)
    \/ /\ heap'[tag_mapping'] # heap[tag_mapping]
       /\ \/ \E t \in Tags : Unregister(t, TRUE)
          \/ \E f \in Files : DeleteFile(f)

\* The file holds the mapping and a newly started _player thread is bound
\* to a mapping equal to it
Restarted ==
    /\ saved = heap[tag_mapping]
    /\ ThreadRunning
    /\ pc[playback_thread] = "delay"
    /\ heap[local_mapping[playback_thread]] = heap[tag_mapping]

\* C6: when a request that changed the mapping returns success, the mapping
\* has been written to the file and the _player thread restarted on it.
C6_MutationRestarts == [][MutationReturns => Restarted']_vars

\* C7: a scan of a tag that has no entry in tag_mapping is never resolved
\* to a file.
C7_RemovedTagUnmapped ==
    [][\A l \in Loops : \A t \in Tags :
          ScanOther(l, t) => heap[tag_mapping][t] # None]_vars

\* C8: at most one SimpleMFRC522 reader object is in use, in every
\* reachable state.
C8_OneReader ==
    Cardinality({l \in Loops : LoopReader(l)})
        + (IF RegisterReader THEN 1 ELSE 0) <= 1

\* C9: a _player thread leaves its while loop only when the Event is set.
C9_ExitsOnlyCancelled ==
    [][\A l \in Loops :
          (pc[l] # "fin_terminate" /\ pc'[l] = "fin_terminate")
              => stop_playback]_vars

----------------------------------------------------------------------------
\* C10: once _stop_playback_thread has set the Event, every _player thread
\* alive at that time eventually ends (under Scheduling, whatever the
\* handler does next).
C10_CancellationHonoured ==
    \A l \in Loops : (stop_playback /\ is_alive(l)) ~> ~is_alive(l)

----------------------------------------------------------------------------
\* handle_stop_playback returns (line 221)
StopPlaybackReturns == hpc = "stop_emit" /\ hpc' = "idle"

\* C11: when stop_playback returns, current_track is None, no mpg123
\* process is running and the LED is off, and the _player threads that
\* were alive still are.
C11_StopPlaybackLeavesNothing ==
    [][StopPlaybackReturns =>
          /\ current_track' = None
          /\ RunningProcs' = {}
          /\ ~led'
          /\ LiveLoops' = LiveLoops]_vars

\* The _player thread is in the unmapped-tag branch (lines 303-309)
InUnmapped(l) == pc[l] \in {"unmapped_flash", "unmapped_clear", "unmapped_emit"}

\* A step of thread l that takes the unmapped-tag branch or moves in it
UnmappedStep(l) ==
    /\ pc'[l] # pc[l]
    /\ InUnmapped(l) \/ (pc[l] = "poll" /\ InUnmapped(l)')

\* A step of thread l inside its while loop that ends a running process
LoopStops(l) ==
    /\ pc'[l] # pc[l]
    /\ pc[l] \notin {"fin_terminate", "fin_join", "fin_clear", "fin_led",
                     "fin_emit"}
    /\ \E p \in Procs : proc[p] = "alive" /\ proc'[p] = "exited"

\* C12: the unmapped-tag branch leaves every process as it is, flashes the
\* LED, sets current_track to None and emits None, and returns to the
\* poll; a step of the while loop ends a running process only after a scan
\* that resolved to a file other than current_file.
C12_UnmappedKeepsProcess ==
    [][\A l \in Loops :
          /\ UnmappedStep(l) =>
                /\ proc' = proc
                /\ current_process'[l] = current_process[l]
                /\ InUnmapped(l)' \/ pc'[l] = "poll"
          /\ (pc[l] = "poll" /\ pc'[l] = "unmapped_flash") => led'
          /\ (pc[l] = "unmapped_clear" /\ pc'[l] # pc[l]) =>
                current_track' = None
          /\ (pc[l] = "unmapped_emit" /\ pc'[l] # pc[l]) =>
                (last_emit' = None /\ pc'[l] = "poll")
          /\ LoopStops(l) =>
                /\ pc[l] = "terminate"
                /\ filename[l] # None
                /\ filename[l] # current_file[l]]_vars

\* C12 witness: a _player thread has cleared current_track for an unmapped
\* tag while the process it spawned is still running.
C12_UnmappedWhilePlaying ==
    \E l \in Loops :
        /\ pc[l] = "unmapped_emit"
        /\ current_track = None
        /\ current_process[l] # NoProc
        /\ Running(current_process[l])

\* Thread k's process is running and plays file f
Plays(k, f) ==
    /\ current_process[k] # NoProc
    /\ Running(current_process[k])
    /\ current_file[k] = f

\* C13: a scan of a tag that resolves to the file of a running process
\* never starts the spawn sequence (it spawns nothing and ends nothing).
C13_SameScanIdle ==
    [][\A l \in Loops : \A t \in Tags :
          ScanOther(l, t) => ~\E k \in Loops : Plays(k, Resolve(l, t))]_vars

\* C14: when delete(file) succeeds, tag_mapping has no entry whose value
\* is the file and every other entry is what it was.
C14_DeleteStripsFile ==
    [][\A f \in Files :
          DeleteFile(f) =>
              \A t \in Tags :
                  /\ heap'[tag_mapping'][t] # f
                  /\ heap[tag_mapping][t] # f =>
                        heap'[tag_mapping'][t] = heap[tag_mapping][t]]_vars

\* C14 witness: tag_mapping is the dict a delete made: the _player thread
\* still holds the old one, in which one tag had the deleted file and
\* another tag a file that was kept.
C14_Deleted ==
    \E l \in LiveLoops : \E t, u \in Tags :
        /\ local_mapping[l] # tag_mapping
        /\ heap[local_mapping[l]][t] # None
        /\ heap[tag_mapping][t] = None
        /\ heap[tag_mapping][u] # None
        /\ heap[tag_mapping][u] = heap[local_mapping[l]][u]
        /\ saved = heap[tag_mapping]

\* The write of the mapping file raises in register, unregister or delete
PersistFails ==
    \/ \E t \in Tags : RegisterTagSaveFails(t) \/ Unregister(t, FALSE)
    \/ \E f \in Files : DeleteFileSaveFails(f)

\* C15: when the write of the mapping file fails, tag_mapping keeps the
\* contents it had before the request and no _player thread is started.
C15_FailedPersistNotCommitted ==
    [][PersistFails =>
          /\ heap'[tag_mapping'] = heap[tag_mapping]
          /\ pc' = pc]_vars

----------------------------------------------------------------------------
\* C16: after set_volume(level), the level emitted and returned is the
\* level clamped to [0,100]; the mixer value is 0 for a clamped level of 0
\* and within 25..90 percent otherwise; and a request that reports the same
\* level as the one before it leaves the mixer value as it was.
C16_ClampedReported ==
    /\ [](level # None =>
            /\ actual_level = <<IF level[1] <= 0 THEN 0
                                ELSE IF level[1] >= 100 THEN 100
                                ELSE level[1]>>
            /\ IF actual_level[1] = 0 THEN remapped_level = <<0>>
               ELSE /\ remapped_level[1] >= 25 * 99
                    /\ remapped_level[1] <= 90 * 99)
    /\ [][(level # None /\ level' # level /\ actual_level' = actual_level)
              => remapped_level' = remapped_level]_vars

\* C16 witness: a request above 100 was clamped: 100 is reported and the
\* mixer is at 90 percent.
C16_ClampedHigh ==
    /\ level # None
    /\ level[1] > 100
    /\ actual_level = <<100>>
    /\ remapped_level = <<90 * 99>>

----------------------------------------------------------------------------
\* The _player thread has set current_track (line 329) and not yet started
\* the process (line 335)
Spawning(l) == pc[l] \in {"emit_track", "led_on", "popen"}

\* Thread l runs line 329, or lines 335-343
Spawns(l) ==
    \/ pc[l] = "set_track" /\ pc'[l] = "emit_track"
    \/ pc[l] = "popen" /\ pc'[l] = "poll"

\* The monitor of process p runs line 255 or line 257
WatcherActs(p) ==
    \/ proc[p] = "exited" /\ proc'[p] = "w_led"
    \/ proc[p] = "w_led" /\ proc'[p] = "w_emit"

\* A _player thread has set a track after the one process p played
Superseded(p) ==
    \E l \in Loops : Spawning(l) \/ current_process[l] \notin {NoProc, p}

\* C17: a _player thread sets current_track and spawns a process only
\* when every earlier process has exited and its monitor has returned, and
\* the monitor of a process never clears current_track or turns the LED off
\* once a later track has been set.
C17_SpawnAfterWatcher ==
    [][/\ \A l \in Loops : Spawns(l) => \A p \in Procs : proc[p] = "free"
       /\ \A p \in Procs : WatcherActs(p) => ~Superseded(p)]_vars

\* C18: whenever current_track is None, a scan of a mapped tag is not
\* skipped as the same file: it starts the spawn sequence.
C18_NullTrackPlays ==
    \A l \in Loops : \A t \in Tags :
        (pc[l] = "poll" /\ ~stop_playback /\ current_track = None
            /\ Resolve(l, t) # None)
        => Resolve(l, t) # current_file[l]

\* handle_register_tag returns its error result (line 164)
RegisterErrorReturns == hpc = "error_flash" /\ hpc' = "idle"

\* C19: a failed read in register leaves tag_mapping and the mapping file
\* as they were, and when register returns its error a _player thread is
\* running with the Event clear.
C19_FailedReadRestarts ==
    [][/\ RegisterReadFails => UNCHANGED <<heap, tag_mapping, saved>>
       /\ RegisterErrorReturns => (ThreadRunning' /\ ~stop_playback')]_vars

\* No thread is between a write of current_track and the track_update
\* that follows it (lines 329-330, 306-307, 355-357, 255-258, 218-220)
Quiescent ==
    /\ \A l \in Loops :
          pc[l] \notin {"emit_track", "unmapped_emit", "fin_led", "fin_emit"}
    /\ \A p \in Procs : proc[p] \notin {"w_led", "w_emit"}
    /\ hpc \notin {"stop_led", "stop_emit"}

\* C20: whenever no thread is between its write of current_track and its
\* track_update, the latest track_update carries current_track.
C20_NotifiedTrack == Quiescent => last_emit = current_track

====
